---- MODULE Spec2Model ----
(***************************************************************************)
(* Sadaqa Tech: the tenant-scoped database of infra/docker/init.sql and    *)
(* the operations the design documents define on it (metrics ingestion,    *)
(* the recommendation job, the approve/reject decision API, the scaling    *)
(* calculator), the ML service of docs/ML_INTEGRATION_GUIDE.md (training,  *)
(* model cache, prediction) and the dashboard's navigation.                *)
(***************************************************************************)
EXTENDS Integers, Sequences, FiniteSets, TLC

VARIABLES
    scaling_events,   \* table scaling_events: id -> row
    audit_logs,       \* table audit_logs: rows in insertion order
    requests,         \* approve/reject requests: issued, in flight or answered
    clock,            \* CURRENT_TIMESTAMP of the decision transactions
    last_job,         \* outcome of the last run of the recommendation job
    metrics,          \* table metrics: rows in insertion order
    now,              \* wall clock, in minutes
    last_ingest,      \* the last ingestion request and its response
    last_read,        \* the "recent metrics" response read from the current rows, if any
    model_files,      \* trained model artifacts on disk: [tenant, version]
    latest,           \* forecaster_<tenant>_latest.pkl: tenant -> version, NoModel if absent
    model_cache,      \* MLService._model_cache: tenant -> version, NoModel if absent
    trained,          \* tenant -> version of its last completed training run
    ml_calls,         \* /ml/train and /ml/predict calls in flight
    last_response,    \* the last response of the ML endpoints
    jobs,             \* TrainingPipeline runs in progress: tenant -> step and temporary file
    history,          \* the browser's history stack of the dashboard
    tenants,          \* table tenants: the ids of its rows
    users,            \* table users: rows [id, tenant_id]
    forecasts,        \* table forecasts: rows [id, tenant_id]
    sql_result,       \* the rows the last SELECT of a session returned
    job_runs          \* the runs of the forecasting job: what each has checked

decision_vars == <<scaling_events, audit_logs, requests, clock, last_job>>
ingest_vars == <<metrics, now, last_ingest, last_read>>
ml_vars == <<model_files, latest, model_cache, trained, ml_calls, last_response, jobs>>
nav_vars == <<history>>
db_vars == <<tenants, users, forecasts, sql_result>>
job_vars == <<job_runs>>
vars == <<scaling_events, audit_logs, requests, clock, last_job,
          metrics, now, last_ingest, last_read,
          model_files, latest, model_cache, trained, ml_calls, last_response, jobs,
          history, tenants, users, forecasts, sql_result, job_runs>>

----------------------------------------------------------------------------
(* Bounds of the model *)

MaxEvents == 2
MaxRequests == 2
MaxRows == 3
MaxBatch == 2
MaxTicks == 1
MaxMinutes == 5
MaxRuns == 2
MaxInserts == 4

----------------------------------------------------------------------------
(* SQL NULL and a present value of a nullable column *)

NULL == <<>>
Some(x) == <<x>>

(* Rows of tenants and users: the seeded demo tenant and admin, plus a     *)
(* second tenant and further users as provisioning creates them.           *)
Tenants == {"t1", "t2"}
Users == {"u1", "u2", "u3"}
UserTenant(u) == IF u = "u3" THEN "t2" ELSE "t1"

EventIds == 1..MaxEvents

----------------------------------------------------------------------------
(* Scaling calculator *)

MAX_REPLICAS == 50
MIN_REPLICAS == 1

Max(a, b) == IF a >= b THEN a ELSE b
Min(a, b) == IF a <= b THEN a ELSE b

FloorDiv(a, b) == a \div b
CeilDiv(a, b) == (a + b - 1) \div b

RECURSIVE SeqMax(_)
SeqMax(s) == IF Len(s) = 1 THEN s[1] ELSE Max(s[1], SeqMax(Tail(s)))

ClampNoCap(n) == Max(MIN_REPLICAS, n)
ClampReplicas(n) == Min(MAX_REPLICAS, Max(MIN_REPLICAS, n))

RecommendedReplicas(predictions, config) ==
    ClampReplicas(CeilDiv(SeqMax(predictions), config.capacity_per_pod)
                  * config.safety_factor)

Configs ==
    { [current_replicas |-> 10, capacity_per_pod |-> c, safety_factor |-> f] :
        c \in {1, 50}, f \in {1, 3} }

(* Forecasts of the next four hours, for a current load of 150 requests/min: *)
(* a drop to zero, the guide's surge to 280, and 100 times the current load.  *)
CurrentTraffic == 150
Forecasts ==
    { <<0, 0, 0, 0>>, <<180, 220, 280, 240>>,
      <<CurrentTraffic, 100 * CurrentTraffic, CurrentTraffic, CurrentTraffic>> }

----------------------------------------------------------------------------
(* Table scaling_events and the recommendation job *)

DEFAULT_STATUS == "pending"
Statuses == {"pending", "approved", "executed", "rejected"}
EventTypes == {"SURGE_DETECTED", "DROP_EXPECTED"}

DefaultReason == Some("Predicted surge from 150 to 280 requests/min (Iftar in 2 hours)")
Reasons == {NULL, Some(""), DefaultReason}

AcceptsEmptyReason(reason) == reason # NULL
HasReason(reason) == reason # NULL /\ reason # Some("")

NotNullOK(row) == row.reason # NULL

NoPendingRecommendation(t) ==
    \A e \in DOMAIN scaling_events :
        ~(scaling_events[e].tenant_id = t /\ scaling_events[e].status = "pending")

NewEventRow(t, signal, predictions, config, reason) ==
    [ tenant_id |-> t,
      event_type |-> signal,
      current_replicas |-> config.current_replicas,
      recommended_replicas |-> RecommendedReplicas(predictions, config),
      status |-> DEFAULT_STATUS,
      reason |-> reason,
      approved_by |-> NULL,
      executed_at |-> NULL,
      created_at |-> now ]

JobOutcome(t, row, predictions, outcome) ==
    [ tenant |-> t, outcome |-> outcome, reason |-> row.reason,
      peak |-> SeqMax(predictions), recommended |-> row.recommended_replicas,
      time |-> now ]

JobInsertRecommendation(t, signal, predictions, config, reason) ==
    /\ Cardinality(DOMAIN scaling_events) < MaxEvents
    /\ LET id == Cardinality(DOMAIN scaling_events) + 1
           row == NewEventRow(t, signal, predictions, config, reason)
       IN  IF signal = "SURGE_DETECTED" /\ NoPendingRecommendation(t)
           THEN IF HasReason(reason) /\ NotNullOK(row)
                THEN /\ scaling_events' =
                          [e \in DOMAIN scaling_events \cup {id} |->
                              IF e = id THEN row ELSE scaling_events[e]]
                     /\ last_job' = JobOutcome(t, row, predictions, "inserted")
                ELSE /\ scaling_events' = scaling_events
                     /\ last_job' = JobOutcome(t, row, predictions, "invalid")
           ELSE /\ scaling_events' = scaling_events
                /\ last_job' = JobOutcome(t, row, predictions, "skipped")
    /\ UNCHANGED <<audit_logs, requests, clock>>
    /\ UNCHANGED <<ingest_vars, ml_vars, nav_vars, db_vars, job_vars>>

(* A run of the job as the statements it sends: the query for a pending     *)
(* recommendation, then the insert. Runs of several workers interleave.     *)
Runs == 1..MaxRuns

NoRun == [phase |-> "idle", tenant |-> NULL, insert |-> FALSE]

JobCheck(r, t, signal) ==
    /\ job_runs[r] = NoRun
    /\ job_runs' = [job_runs EXCEPT ![r] =
          [phase |-> "checked", tenant |-> Some(t),
           insert |-> signal = "SURGE_DETECTED" /\ NoPendingRecommendation(t)]]
    /\ UNCHANGED <<decision_vars, ingest_vars, ml_vars, nav_vars, db_vars>>

JobInsert(r, predictions, config, reason) ==
    /\ job_runs[r].phase = "checked"
    /\ Cardinality(DOMAIN scaling_events) < MaxEvents
    /\ LET t == job_runs[r].tenant[1]
           id == Cardinality(DOMAIN scaling_events) + 1
           row == NewEventRow(t, "SURGE_DETECTED", predictions, config, reason)
       IN  IF job_runs[r].insert
           THEN IF HasReason(reason) /\ NotNullOK(row)
                THEN /\ scaling_events' =
                          [e \in DOMAIN scaling_events \cup {id} |->
                              IF e = id THEN row ELSE scaling_events[e]]
                     /\ last_job' = JobOutcome(t, row, predictions, "inserted")
                ELSE /\ scaling_events' = scaling_events
                     /\ last_job' = JobOutcome(t, row, predictions, "invalid")
           ELSE /\ scaling_events' = scaling_events
                /\ last_job' = JobOutcome(t, row, predictions, "skipped")
    /\ job_runs' = [job_runs EXCEPT ![r] = NoRun]
    /\ UNCHANGED <<audit_logs, requests, clock>>
    /\ UNCHANGED <<ingest_vars, ml_vars, nav_vars, db_vars>>

----------------------------------------------------------------------------
(* Row level security and the approve/reject decision API *)

tenant_isolation_permissive(row, current_tenant_id) == TRUE
tenant_isolation_scaling_events(row, current_tenant_id) ==
    row.tenant_id = current_tenant_id

VisibleEvent(id, t) ==
    /\ id \in DOMAIN scaling_events
    /\ tenant_isolation_scaling_events(scaling_events[id], t)

Decisions == {"approve", "reject"}

ApproveStatus == "executed"
RejectStatus == "rejected"
DecisionStatus(d) == IF d = "approve" THEN ApproveStatus ELSE RejectStatus

SeenPending(row, seen) == seen = "pending"
AnyStatus(row, seen) == TRUE
CanTransition(row, seen) == row.status = "pending"

AuditRow(t, u, d, id) ==
    [ tenant_id |-> t, user_id |-> Some(u), action |-> d,
      resource_type |-> "scaling_event", resource_id |-> id ]

NoAudit(log, row) == log
WriteAudit(log, row) == Append(log, row)

SubmitDecision(u, id, d) ==
    /\ Len(requests) < MaxRequests
    /\ requests' = Append(requests,
          [caller |-> u, id |-> id, decision |-> d,
           phase |-> "lookup", seen |-> "none", result |-> "none"])
    /\ UNCHANGED <<scaling_events, audit_logs, clock, last_job>>
    /\ UNCHANGED <<ingest_vars, ml_vars, nav_vars, db_vars, job_vars>>

Lookup(i) ==
    /\ requests[i].phase = "lookup"
    /\ LET r == requests[i]
           t == UserTenant(r.caller)
       IN  IF ~VisibleEvent(r.id, t)
           THEN requests' = [requests EXCEPT ![i].phase = "done",
                                             ![i].result = "NotFound"]
           ELSE IF ~CanTransition(scaling_events[r.id], scaling_events[r.id].status)
           THEN requests' = [requests EXCEPT ![i].phase = "done",
                                             ![i].seen = scaling_events[r.id].status,
                                             ![i].result = "InvalidState"]
           ELSE requests' = [requests EXCEPT ![i].phase = "apply",
                                             ![i].seen = scaling_events[r.id].status]
    /\ UNCHANGED <<scaling_events, audit_logs, clock, last_job>>
    /\ UNCHANGED <<ingest_vars, ml_vars, nav_vars, db_vars, job_vars>>

Apply(i) ==
    /\ requests[i].phase = "apply"
    /\ LET r == requests[i]
           t == UserTenant(r.caller)
       IN  IF VisibleEvent(r.id, t) /\ CanTransition(scaling_events[r.id], r.seen)
           THEN /\ scaling_events' =
                     [scaling_events EXCEPT
                        ![r.id].status = DecisionStatus(r.decision),
                        ![r.id].approved_by =
                            IF r.decision = "approve" THEN Some(r.caller) ELSE @,
                        ![r.id].executed_at =
                            IF r.decision = "approve" THEN Some(clock) ELSE @]
                /\ audit_logs' = WriteAudit(audit_logs, AuditRow(t, r.caller, r.decision, r.id))
                /\ clock' = clock + 1
                /\ requests' = [requests EXCEPT ![i].phase = "done",
                                                ![i].result = "ok"]
           ELSE /\ requests' = [requests EXCEPT ![i].phase = "done",
                                                ![i].result = "InvalidState"]
                /\ UNCHANGED <<scaling_events, audit_logs, clock>>
    /\ UNCHANGED last_job
    /\ UNCHANGED <<ingest_vars, ml_vars, nav_vars, db_vars, job_vars>>

----------------------------------------------------------------------------
(* Table metrics: ingestion and the "recent metrics" read *)

METRIC_TYPES ==
    {"request_rate", "error_rate", "latency_p50", "latency_p95", "latency_p99",
     "cpu", "memory"}

KnownOrEngineMetricType(m) == m \in METRIC_TYPES \cup {"cpu_usage", "memory_usage"}
KnownMetricType(m) == m \in METRIC_TYPES

ValidEntry(e) == KnownMetricType(e.metric_type) /\ e.value # NULL

ValidBatch(batch) == \A i \in DOMAIN batch : ValidEntry(batch[i])

(* time is the entry's own timestamp when it carries one, else the time of *)
(* the request                                                            *)
MetricRow(t, e, ts) ==
    [ time |-> IF e.time = NULL THEN ts ELSE e.time[1],
      tenant_id |-> t,
      metric_type |-> e.metric_type,
      value |-> e.value[1] ]

MetricRows(t, batch, ts) == [i \in DOMAIN batch |-> MetricRow(t, batch[i], ts)]

tenant_isolation_metrics_permissive(row, current_tenant_id) == TRUE
tenant_isolation_metrics(row, current_tenant_id) ==
    row.tenant_id = current_tenant_id

RECENT_WINDOW == 30

RECURSIVE InsertByTimeDesc(_, _)
InsertByTimeDesc(sorted, row) ==
    IF sorted = <<>> THEN <<row>>
    ELSE IF row.time > Head(sorted).time THEN <<row>> \o sorted
    ELSE <<Head(sorted)>> \o InsertByTimeDesc(Tail(sorted), row)

RECURSIVE SortByTimeDesc(_)
SortByTimeDesc(rows) ==
    IF rows = <<>> THEN <<>>
    ELSE InsertByTimeDesc(SortByTimeDesc(Tail(rows)), Head(rows))

InWindow(row, ts) == row.time > ts - RECENT_WINDOW

RecentMetrics(t, table, ts) ==
    LET Selected(row) == tenant_isolation_metrics(row, t) /\ InWindow(row, ts)
    IN  SortByTimeDesc(SelectSeq(table, Selected))

NoRead == [tenant |-> NULL, rows |-> <<>>]

IngestMetrics(identity, batch) ==
    /\ Len(metrics) + Len(batch) <= MaxRows
    /\ IF identity # NULL /\ ValidBatch(batch)
       THEN /\ metrics' = metrics \o MetricRows(identity[1], batch, now)
            /\ last_ingest' = [tenant |-> identity, batch |-> batch, status |-> "ok"]
       ELSE /\ metrics' = metrics
            /\ last_ingest' = [tenant |-> identity, batch |-> batch,
                               status |-> "InvalidInput"]
    /\ last_read' = NoRead
    /\ UNCHANGED now
    /\ UNCHANGED <<decision_vars, ml_vars, nav_vars, db_vars, job_vars>>

ReadRecent(t) ==
    /\ last_read' = [tenant |-> Some(t), rows |-> RecentMetrics(t, metrics, now)]
    /\ UNCHANGED <<metrics, now, last_ingest>>
    /\ UNCHANGED <<decision_vars, ml_vars, nav_vars, db_vars, job_vars>>

Tick ==
    /\ now < MaxTicks * 20
    /\ now' = now + 20
    /\ last_read' = NoRead
    /\ UNCHANGED <<metrics, last_ingest>>
    /\ UNCHANGED <<decision_vars, ml_vars, nav_vars, db_vars, job_vars>>

(* The background task loop of the job sleeps a minute between two runs. *)
Sleep ==
    /\ now < MaxMinutes
    /\ now' = now + 1
    /\ last_read' = NoRead
    /\ UNCHANGED <<metrics, last_ingest>>
    /\ UNCHANGED <<decision_vars, ml_vars, nav_vars, db_vars, job_vars>>

(* Entries a client sends: a known and an unknown metric type; no time, a   *)
(* time ten minutes ago, a backfilled time 45 minutes ago; a malformed value *)
Entries ==
    { [metric_type |-> "cpu", value |-> Some(10), time |-> tm] :
        tm \in {NULL, Some(now - 10), Some(now - 45)} }
    \cup { [metric_type |-> "cpu_usage", value |-> Some(10), time |-> NULL] }

MalformedEntry == [metric_type |-> "cpu", value |-> NULL, time |-> NULL]

Batches ==
    UNION { [1..n -> Entries] : n \in 1..MaxBatch } \cup { <<MalformedEntry>> }

Identities == {NULL} \cup { Some(t) : t \in Tenants }

----------------------------------------------------------------------------
(* The ML service: MLService of docs/ML_INTEGRATION_GUIDE.md and its routes *)

MaxCalls == 2
MaxTrainings == 2

DAY == 1440
NoModel == 0

Role(u) == IF u = "u2" THEN "operator" ELSE "admin"
AnyRole(u) == TRUE
is_admin(u) == Role(u) = "admin"

(* MetricsDataLoader.load_historical_metrics: the tenant's rows of the      *)
(* range, newest first                                                      *)
load_historical_metrics(t, start_date, end_date) ==
    LET Selected(row) ==
            /\ tenant_isolation_metrics(row, t)
            /\ row.time >= start_date /\ row.time <= end_date
    IN  SortByTimeDesc(SelectSeq(metrics, Selected))

(* data_stats.days_of_data: the whole days from the first to the last row *)
days_of_data(df) ==
    IF df = <<>> THEN 0 ELSE (df[1].time - df[Len(df)].time) \div DAY

min_training_days == 60
ValidatedDaysSuffice(df) == days_of_data(df) >= 30
EnoughHistory(df) == days_of_data(df) >= min_training_days

(* TrainingRequest: days_history: int = Field(60, ge=30, le=365) *)
ValidTrainingRequest(days_history) == days_history >= 30 /\ days_history <= 365

KeepCache(cache, t) == cache
ClearCache(cache, t) == [cache EXCEPT ![t] = NoModel]

NoRecommendation == [recommended_replicas |-> 0]
NoPrediction == [model_used |-> "none"]

Response(u, op, result, model) ==
    [ caller |-> u, op |-> op, result |-> result, model |-> model,
      predictions |-> NoPrediction, scaling_recommendation |-> NoRecommendation ]

(* A call in flight. For a prediction, floor is the tenant's last completed *)
(* training and cached the tenant's cache entry, as the call found them.    *)
Call(u, op, phase, model, floor, req) ==
    [ caller |-> u, op |-> op, phase |-> phase, model |-> model,
      floor |-> floor, request |-> req,
      cached |-> IF op = "predict" THEN model_cache[UserTenant(u)] ELSE NoModel ]

RemoveAt(s, i) == SubSeq(s, 1, i - 1) \o SubSeq(s, i + 1, Len(s))

NoRequest ==
    [ current_replicas |-> 0, capacity_per_pod |-> 0, cost_per_replica_hour |-> 0 ]

(* POST /ml/train up to the end of TrainingPipeline.run: request           *)
(* validation, the admin check, the data load and the training itself,     *)
(* which saves the model and moves the tenant's latest link to it.         *)
TrainStart(u, days_history) ==
    LET t == UserTenant(u)
        df == load_historical_metrics(t, now - days_history * DAY, now)
        v == Cardinality(model_files) + 1
        Fail(result) ==
            /\ last_response' = Response(u, "train", result, NoModel)
            /\ UNCHANGED <<model_files, latest, ml_calls>>
    IN  /\ Len(ml_calls) < MaxCalls
        /\ IF ~ValidTrainingRequest(days_history) THEN Fail("InvalidInput")
           ELSE IF ~is_admin(u) THEN Fail("Forbidden")
           ELSE IF ~EnoughHistory(df) THEN Fail("InvalidInput")
           ELSE /\ Cardinality(model_files) < MaxTrainings
                /\ model_files' = model_files \cup {[tenant |-> t, version |-> v]}
                /\ latest' = [latest EXCEPT ![t] = v]
                /\ ml_calls' = Append(ml_calls,
                                      Call(u, "train", "clear_cache", v, NoModel, NoRequest))
                /\ UNCHANGED last_response
        /\ UNCHANGED <<model_cache, trained, jobs>>
        /\ UNCHANGED <<decision_vars, ingest_vars, nav_vars, db_vars, job_vars>>

(* MLService.train_model after pipeline.run: the cache entry is dropped    *)
(* and the summary returned.                                               *)
TrainFinish(i) ==
    LET c == ml_calls[i]
        t == UserTenant(c.caller)
    IN  /\ c.op = "train"
        /\ model_cache' = ClearCache(model_cache, t)
        /\ trained' = [trained EXCEPT ![t] = Max(trained[t], c.model)]
        /\ ml_calls' = RemoveAt(ml_calls, i)
        /\ last_response' = Response(c.caller, "train", "ok", c.model)
        /\ UNCHANGED <<model_files, latest, jobs>>
        /\ UNCHANGED <<decision_vars, ingest_vars, nav_vars, db_vars, job_vars>>

(* PredictionRequest: current_replicas ge=1 le=50, capacity_per_pod gt=0,  *)
(* cost_per_replica_hour gt=0 (here in cents)                               *)
ValidPredictionRequest(req) ==
    /\ req.current_replicas >= 1 /\ req.current_replicas <= 50
    /\ req.capacity_per_pod > 0
    /\ req.cost_per_replica_hour > 0

(* HybridForecaster.predict. The trained pattern learner and the seasonal  *)
(* baseline are given by their outputs fc; confidence is in hundredths.    *)
CONFIDENCE_THRESHOLD == 70
SANITY_MULTIPLE == 5

UsesPatternWhenTrained(fc) == fc.pattern_trained
UsesPattern(fc) == fc.pattern_trained /\ fc.confidence >= CONFIDENCE_THRESHOLD

AnyOutput(values, current_traffic) == TRUE
ValidOutput(values, current_traffic) ==
    \A i \in DOMAIN values :
        values[i] >= 0 /\ values[i] <= SANITY_MULTIPLE * current_traffic

ClampOutput(values, current_traffic) ==
    [ i \in DOMAIN values |->
        Max(0, Min(values[i], SANITY_MULTIPLE * current_traffic)) ]

predict(fc, current_traffic) ==
    IF UsesPattern(fc) /\ ValidOutput(fc.pattern, current_traffic)
    THEN [ values |-> fc.pattern, confidence |-> fc.confidence,
           trigger |-> fc.trigger, model_used |-> "pattern_learner" ]
    ELSE [ values |-> ClampOutput(fc.baseline, current_traffic),
           confidence |-> fc.confidence,
           trigger |-> fc.trigger, model_used |-> "seasonal_baseline" ]

(* ScalingCalculator.calculate_scaling: replicas, cost impact and reason *)
CostOfTarget(recommended, current, rate) == recommended * rate
CostImpact(recommended, current, rate) == (recommended - current) * rate

Direction(recommended, current) ==
    IF recommended > current THEN "scale_up"
    ELSE IF recommended < current THEN "scale_down" ELSE "hold"

approval_when_scaling_up(recommendation) ==
    recommendation.recommended_replicas > recommendation.current_replicas
requires_approval(recommendation) == TRUE

scaling_unless_pending(predictions, trigger, config) ==
    LET recommended ==
            IF \E e \in DOMAIN scaling_events : scaling_events[e].status = "pending"
            THEN config.current_replicas
            ELSE RecommendedReplicas(predictions, config)
    IN  [ current_replicas |-> config.current_replicas,
          recommended_replicas |-> recommended,
          cost_impact_hourly |->
              CostImpact(recommended, config.current_replicas,
                         config.cost_per_replica_hour),
          reason |-> [ direction |-> Direction(recommended, config.current_replicas),
                       peak |-> SeqMax(predictions) ],
          triggered_by |-> trigger ]
calculate_scaling(predictions, trigger, config) ==
    LET recommended == RecommendedReplicas(predictions, config)
    IN  [ current_replicas |-> config.current_replicas,
          recommended_replicas |-> recommended,
          cost_impact_hourly |->
              CostImpact(recommended, config.current_replicas,
                         config.cost_per_replica_hour),
          reason |-> [ direction |-> Direction(recommended, config.current_replicas),
                       peak |-> SeqMax(predictions) ],
          triggered_by |-> trigger ]

WorkloadConfig(req, safety_factor) ==
    [ current_replicas |-> req.current_replicas,
      capacity_per_pod |-> req.capacity_per_pod,
      cost_per_replica_hour |-> req.cost_per_replica_hour,
      safety_factor |-> safety_factor ]

(* self._model_cache[tenant_id] = forecaster *)
CacheUnderOneKey(cache, t, model) == [x \in DOMAIN cache |-> model]
CacheModel(cache, t, model) == [cache EXCEPT ![t] = model]

(* POST /ml/predict up to the end of MLService._load_model: request        *)
(* validation, then the cached model or the tenant's latest one.           *)
PredictStart(u, req) ==
    LET t == UserTenant(u)
        Begin(model) ==
            /\ ml_calls' = Append(ml_calls,
                                  Call(u, "predict", "predicting", model, trained[t], req))
            /\ UNCHANGED last_response
    IN  /\ Len(ml_calls) < MaxCalls
        /\ IF ~ValidPredictionRequest(req)
           THEN /\ last_response' = Response(u, "predict", "InvalidInput", NoModel)
                /\ UNCHANGED <<model_cache, ml_calls>>
           ELSE IF model_cache[t] # NoModel
           THEN Begin(model_cache[t]) /\ UNCHANGED model_cache
           ELSE IF latest[t] = NoModel
           THEN /\ last_response' = Response(u, "predict", "NotFound", NoModel)
                /\ UNCHANGED <<model_cache, ml_calls>>
           ELSE /\ Begin(latest[t])
                /\ model_cache' = CacheModel(model_cache, t, latest[t])
        /\ UNCHANGED <<model_files, latest, trained, jobs>>
        /\ UNCHANGED <<decision_vars, ingest_vars, nav_vars, db_vars, job_vars>>

(* generate_prediction step 2: the metrics of the last 7 days.             *)
AllMetrics(t) == load_historical_metrics(t, now - 365 * DAY, now)
PredictionContext(t) == load_historical_metrics(t, now - 7 * DAY, now)

(* MLService.generate_prediction after the model is loaded: the last 7     *)
(* days of metrics, the forecast of the loaded model and the               *)
(* recommendation.                                                         *)
PredictFinish(i, fc, safety_factor) ==
    LET c == ml_calls[i]
        t == UserTenant(c.caller)
        df == PredictionContext(t)
        current_traffic == df[1].value
        prediction_result == predict(fc, current_traffic)
        recommendation ==
            calculate_scaling(prediction_result.values, prediction_result.trigger,
                              WorkloadConfig(c.request, safety_factor))
    IN  /\ c.op = "predict"
        /\ ml_calls' = RemoveAt(ml_calls, i)
        /\ IF Len(df) = 0
           THEN last_response' = Response(c.caller, "predict", "InvalidInput", NoModel)
           ELSE last_response' =
                  [ caller |-> c.caller, op |-> "predict", result |-> "ok",
                    model |-> c.model, current_traffic |-> current_traffic,
                    config |-> WorkloadConfig(c.request, safety_factor),
                    predictions |-> prediction_result,
                    scaling_recommendation |->
                        [ current_replicas |-> recommendation.current_replicas,
                          recommended_replicas |-> recommendation.recommended_replicas,
                          cost_impact_hourly |-> recommendation.cost_impact_hourly,
                          reason |-> recommendation.reason,
                          triggered_by |-> recommendation.triggered_by,
                          requires_approval |-> requires_approval(recommendation) ] ]
        /\ UNCHANGED <<model_files, latest, model_cache, trained, jobs>>
        /\ UNCHANGED <<decision_vars, ingest_vars, nav_vars, db_vars, job_vars>>

(* A step of generate_prediction raises. pickle.load of the tenant's       *)
(* latest file raises when the file is not a valid pickle: nothing is      *)
(* cached, and the route answers the exception with a 500.                 *)
PredictLoadFault(u, req) ==
    LET t == UserTenant(u)
    IN  /\ ValidPredictionRequest(req)
        /\ model_cache[t] = NoModel /\ latest[t] # NoModel
        /\ last_response' = Response(u, "predict", "Fault", NoModel)
        /\ UNCHANGED <<model_files, latest, model_cache, trained, jobs, ml_calls>>
        /\ UNCHANGED <<decision_vars, ingest_vars, nav_vars, db_vars, job_vars>>

(* The feature engineering, the forecaster or the calculator raises after  *)
(* the metrics are read: the route answers a ValueError with a 400 and     *)
(* every other exception with a 500.                                       *)
ExceptionKinds == {"ValueError", "Exception"}

PredictFault(i, kind) ==
    LET c == ml_calls[i]
        t == UserTenant(c.caller)
    IN  /\ c.op = "predict"
        /\ Len(PredictionContext(t)) # 0
        /\ ml_calls' = RemoveAt(ml_calls, i)
        /\ last_response' =
              Response(c.caller, "predict",
                       IF kind = "ValueError" THEN "InvalidInput" ELSE "Fault", NoModel)
        /\ UNCHANGED <<model_files, latest, model_cache, trained, jobs>>
        /\ UNCHANGED <<decision_vars, ingest_vars, nav_vars, db_vars, job_vars>>

(* TrainingPipeline.run, step by step: load the history, engineer the       *)
(* features, train the models, save the model to disk with its version and *)
(* point the tenant's latest link at it. The model is first written to a   *)
(* temporary file; a run can fail or time out at every step.               *)
NoJob == [step |-> "idle", version |-> NoModel, written |-> "nothing"]

PipelineSteps == <<"loaded", "engineered", "trained", "saving", "saved">>

NextStep(step) ==
    PipelineSteps[(CHOOSE k \in DOMAIN PipelineSteps : PipelineSteps[k] = step) + 1]

(* What the temporary file holds at a step. *)
Written(step) ==
    IF step = "saved" THEN "whole" ELSE IF step = "saving" THEN "part" ELSE "nothing"

PublishWhenSaving(job) == job.step \in {"saving", "saved"}
PublishOnFullSuccess(job) == job.step = "saved"

(* train_model of an admin with a valid request: the history is loaded and *)
(* too short a history refused; otherwise the run begins.                  *)
PipelineStart(u, days_history) ==
    LET t == UserTenant(u)
        v == Cardinality(model_files) + 1
    IN  /\ is_admin(u) /\ ValidTrainingRequest(days_history)
        /\ jobs[t] = NoJob
        /\ Cardinality(model_files) < MaxTrainings
        /\ IF EnoughHistory(load_historical_metrics(t, now - days_history * DAY, now))
           THEN /\ jobs' = [jobs EXCEPT ![t] =
                              [step |-> "loaded", version |-> v, written |-> "nothing"]]
                /\ UNCHANGED last_response
           ELSE /\ last_response' = Response(u, "train", "InvalidInput", NoModel)
                /\ UNCHANGED jobs
        /\ UNCHANGED <<model_files, latest, model_cache, trained, ml_calls>>
        /\ UNCHANGED <<decision_vars, ingest_vars, nav_vars, db_vars, job_vars>>

(* The run of tenant t advances by one step. *)
PipelineStep(t) ==
    /\ jobs[t].step \in {"loaded", "engineered", "trained", "saving"}
    /\ jobs' = [jobs EXCEPT ![t] =
                  [step |-> NextStep(jobs[t].step), version |-> jobs[t].version,
                   written |-> Written(NextStep(jobs[t].step))]]
    /\ UNCHANGED <<model_files, latest, model_cache, trained, ml_calls, last_response>>
    /\ UNCHANGED <<decision_vars, ingest_vars, nav_vars, db_vars, job_vars>>

(* The run of tenant t fails or times out at its current step: the         *)
(* temporary file is dropped and the caller gets the error.                *)
PipelineFail(u) ==
    LET t == UserTenant(u)
    IN  /\ is_admin(u)
        /\ jobs[t] # NoJob
        /\ jobs' = [jobs EXCEPT ![t] = NoJob]
        /\ last_response' = Response(u, "train", "Fault", NoModel)
        /\ UNCHANGED <<model_files, latest, model_cache, trained, ml_calls>>
        /\ UNCHANGED <<decision_vars, ingest_vars, nav_vars, db_vars, job_vars>>

(* The finished file is moved into place and the latest link set to it in  *)
(* one step; train_model then drops the cache entry and returns.           *)
PipelinePublish(u) ==
    LET t == UserTenant(u)
        job == jobs[t]
    IN  /\ is_admin(u)
        /\ PublishOnFullSuccess(job)
        /\ model_files' = IF job.written = "whole"
                          THEN model_files \cup {[tenant |-> t, version |-> job.version]}
                          ELSE model_files
        /\ latest' = [latest EXCEPT ![t] = job.version]
        /\ jobs' = [jobs EXCEPT ![t] = NoJob]
        /\ model_cache' = ClearCache(model_cache, t)
        /\ trained' = [trained EXCEPT ![t] = Max(trained[t], job.version)]
        /\ last_response' = Response(u, "train", "ok", job.version)
        /\ UNCHANGED ml_calls
        /\ UNCHANGED <<decision_vars, ingest_vars, nav_vars, db_vars, job_vars>>

(* Inputs of the ML endpoints. Metrics of one tenant as a pair of rows:     *)
(* today and 60 days back, today and 59 days back, or 8 and 68 days back.   *)
HistoryEntry(age) ==
    [ metric_type |-> "request_rate", value |-> Some(CurrentTraffic),
      time |-> Some(now - age * DAY) ]

HistoryBatches ==
    { <<HistoryEntry(60), HistoryEntry(0)>>,
      <<HistoryEntry(59), HistoryEntry(0)>>,
      <<HistoryEntry(68), HistoryEntry(8)>> }

DaysHistory == {29, 59, 60, 90}

DefaultRequest ==
    [ current_replicas |-> 10, capacity_per_pod |-> 50, cost_per_replica_hour |-> 5 ]

PredictionRequests ==
    { [DefaultRequest EXCEPT !.current_replicas = n] : n \in {6, 10, 51} }
    \cup { [DefaultRequest EXCEPT !.capacity_per_pod = 7] }

DefaultForecasterOutput ==
    [ pattern |-> <<180, 220, 280, 240>>, confidence |-> 87,
      pattern_trained |-> TRUE, baseline |-> <<160, 170, 180, 170>>,
      trigger |-> "iftar_approaching" ]

(* Outputs of the two models: the pattern learner at, below and above the  *)
(* confidence threshold, untrained, predicting a drop, a negative value and *)
(* more than 5x the current traffic; the baseline within and above 5x, and  *)
(* a baseline of no traffic at all.                                         *)
ForecasterOutputs ==
    LET d == DefaultForecasterOutput
        high == <<900, 170, 180, 170>>
    IN  { d,
          [d EXCEPT !.confidence = 70],
          [d EXCEPT !.confidence = 69],
          [d EXCEPT !.pattern_trained = FALSE],
          [d EXCEPT !.pattern = <<40, 40, 40, 40>>],
          [d EXCEPT !.pattern = <<180, 0 - 5, 280, 240>>],
          [d EXCEPT !.pattern = <<180, 220, 800, 240>>],
          [d EXCEPT !.pattern = <<180, 220, 800, 240>>, !.baseline = high],
          [d EXCEPT !.confidence = 69, !.baseline = high],
          [d EXCEPT !.pattern_trained = FALSE, !.baseline = <<0, 0, 0, 0>>] }

SafetyFactors == {1, 3}

----------------------------------------------------------------------------
(* Dashboard navigation: the sidebar of the main layout and the routes      *)

MaxHistory == 4

(* Sidebar.tsx: navItems *)
navItems ==
    << [label |-> "Dashboard", to |-> "/"],
       [label |-> "Metrics", to |-> "/metrics"],
       [label |-> "Predictions", to |-> "/predictions"],
       [label |-> "Recommendations", to |-> "/recommendations"],
       [label |-> "Approvals", to |-> "/approvals"],
       [label |-> "Simulator", to |-> "/simulator"],
       [label |-> "Audit Log", to |-> "/audit-log"] >>

(* App.tsx: the <Route> elements under <Route element={<MainLayout />}> *)
AppRoutes ==
    { [path |-> "/", element |-> "Overview"],
      [path |-> "/metrics", element |-> "Metrics"],
      [path |-> "/predictions", element |-> "Predictions"],
      [path |-> "/recommendations", element |-> "Recommendations"],
      [path |-> "/approvals", element |-> "Approvals"],
      [path |-> "/simulator", element |-> "Simulator"],
      [path |-> "/audit-log", element |-> "Auditlog"],
      [path |-> "/tenants", element |-> "Tenants"] }

(* router.tsx: the children of the route object of path "/"; the index     *)
(* route has no path of its own.                                           *)
RouterChildren ==
    { [index |-> TRUE, path |-> "", element |-> "Overview"],
      [index |-> FALSE, path |-> "metrics", element |-> "Metrics"],
      [index |-> FALSE, path |-> "predictions", element |-> "Predictions"],
      [index |-> FALSE, path |-> "recommendations", element |-> "Recommendations"],
      [index |-> FALSE, path |-> "approvals", element |-> "Approvals"],
      [index |-> FALSE, path |-> "simulator", element |-> "Simulator"],
      [index |-> FALSE, path |-> "audit-log", element |-> "Auditlog"],
      [index |-> FALSE, path |-> "tenants", element |-> "Tenants"] }

(* A child route's path is joined to its parent's. *)
ResolvePath(parent, child) ==
    IF child.index THEN parent ELSE parent \o child.path

RouterRoutes ==
    { [path |-> ResolvePath("/", c), element |-> c.element] : c \in RouterChildren }

RegisteredRoutes == AppRoutes \cup RouterRoutes

NoMatch == "no-match"

(* The page the router renders in the layout's <Outlet> at a location. *)
Match(location) ==
    IF \E r \in RegisteredRoutes : r.path = location
    THEN (CHOOSE r \in RegisteredRoutes : r.path = location).element
    ELSE NoMatch

Location == history[Len(history)]

(* Addresses a user can type: the registered ones and one that is not. *)
Urls == {r.path : r \in RegisteredRoutes} \cup {"/settings"}

(* A click on a <NavLink> of the sidebar pushes its target. *)
ClickNavItem(k) ==
    /\ Len(history) < MaxHistory
    /\ Match(Location) # NoMatch
    /\ history' = Append(history, navItems[k].to)
    /\ UNCHANGED <<decision_vars, ingest_vars, ml_vars, db_vars, job_vars>>

(* The user opens an address directly. *)
OpenUrl(url) ==
    /\ Len(history) < MaxHistory
    /\ history' = Append(history, url)
    /\ UNCHANGED <<decision_vars, ingest_vars, ml_vars, db_vars, job_vars>>

(* The browser's back button. *)
Back ==
    /\ Len(history) > 1
    /\ history' = SubSeq(history, 1, Len(history) - 1)
    /\ UNCHANGED <<decision_vars, ingest_vars, ml_vars, db_vars, job_vars>>

----------------------------------------------------------------------------
(* The database of init.sql: foreign keys, row level security and the      *)
(* statements of a session whose app.current_tenant_id is set              *)

UserRow(u) == [id |-> u, tenant_id |-> UserTenant(u)]

NoResult == [session |-> NULL, table |-> "none", rows |-> {}]

TenantTables == {"users", "metrics", "forecasts", "scaling_events", "audit_logs"}
Tables == TenantTables \cup {"tenants"}

RowsOf(seq) == {seq[i] : i \in DOMAIN seq}

TableRows(table) ==
    CASE table = "tenants" -> {[id |-> t] : t \in tenants}
      [] table = "users" -> users
      [] table = "metrics" -> RowsOf(metrics)
      [] table = "forecasts" -> forecasts
      [] table = "scaling_events" -> RowsOf(scaling_events)
      [] table = "audit_logs" -> RowsOf(audit_logs)

(* CREATE POLICY ... USING (...): without FOR and WITH CHECK a policy holds *)
(* for every command, and its USING expression is also the check of rows   *)
(* a statement writes.                                                     *)
tenant_isolation_tenants(row, current_tenant_id) == TRUE
tenant_isolation_users(row, current_tenant_id) == row.tenant_id = current_tenant_id
tenant_isolation_forecasts(row, current_tenant_id) == row.tenant_id = current_tenant_id
tenant_isolation_audit_logs(row, current_tenant_id) == row.tenant_id = current_tenant_id

Policy(table, row, current_tenant_id) ==
    CASE table = "tenants" -> tenant_isolation_tenants(row, current_tenant_id)
      [] table = "users" -> tenant_isolation_users(row, current_tenant_id)
      [] table = "metrics" -> tenant_isolation_metrics(row, current_tenant_id)
      [] table = "forecasts" -> tenant_isolation_forecasts(row, current_tenant_id)
      [] table = "scaling_events" -> tenant_isolation_scaling_events(row, current_tenant_id)
      [] table = "audit_logs" -> tenant_isolation_audit_logs(row, current_tenant_id)

(* tenant_id UUID NOT NULL REFERENCES tenants(id): on every tenant-scoped   *)
(* table but metrics.                                                       *)
ReferencesTenants(table) == table \in {"users", "forecasts", "scaling_events", "audit_logs"}

ForeignKeyOK(table, row) == ReferencesTenants(table) => row.tenant_id \in tenants

(* ON DELETE CASCADE of tenant_id: the rows of a deleted tenant go with it. *)
CascadeSet(rows, t) == {r \in rows : r.tenant_id # t}
CascadeSeq(rows, t) == SelectSeq(rows, LAMBDA r : r.tenant_id # t)

(* ON DELETE SET NULL of scaling_events.approved_by and audit_logs.user_id *)
KeepReference(ref, u) == ref
SetNull(ref, u) == IF ref = Some(u) THEN NULL ELSE ref

(* SELECT * FROM table *)
SqlSelect(s, table) ==
    /\ sql_result' = [session |-> Some(s), table |-> table,
                      rows |-> {r \in TableRows(table) : Policy(table, r, s)}]
    /\ UNCHANGED <<tenants, users, forecasts>>
    /\ UNCHANGED <<decision_vars, ingest_vars, ml_vars, nav_vars, job_vars>>

(* INSERT INTO forecasts / metrics ... of a row for tenant t, a metrics    *)
(* row with time ts                                                        *)
SqlInsert(s, table, t, ts) ==
    LET frow == [id |-> Cardinality(forecasts) + 1, tenant_id |-> t]
        mrow == [time |-> ts, tenant_id |-> t, metric_type |-> "request_rate",
                 value |-> CurrentTraffic]
    IN  /\ table \in {"forecasts", "metrics"}
        /\ IF table = "forecasts"
           THEN /\ Cardinality(forecasts) < MaxEvents
                /\ forecasts' = IF Policy(table, frow, s) /\ ForeignKeyOK(table, frow)
                                THEN forecasts \cup {frow} ELSE forecasts
                /\ UNCHANGED metrics
           ELSE /\ Len(metrics) < MaxInserts
                /\ metrics' = IF Policy(table, mrow, s) /\ ForeignKeyOK(table, mrow)
                              THEN Append(metrics, mrow) ELSE metrics
                /\ UNCHANGED forecasts
        /\ sql_result' = NoResult
        /\ last_read' = NoRead
        /\ UNCHANGED <<tenants, users, now, last_ingest>>
        /\ UNCHANGED <<decision_vars, ml_vars, nav_vars, job_vars>>

(* UPDATE scaling_events SET tenant_id = t WHERE id = ... *)
SqlUpdateTenantId(s, id, t) ==
    LET new == [scaling_events[id] EXCEPT !.tenant_id = t]
    IN  /\ id \in DOMAIN scaling_events
        /\ scaling_events' =
              IF /\ Policy("scaling_events", scaling_events[id], s)
                 /\ Policy("scaling_events", new, s)
                 /\ ForeignKeyOK("scaling_events", new)
              THEN [scaling_events EXCEPT ![id] = new] ELSE scaling_events
        /\ sql_result' = NoResult
        /\ UNCHANGED <<tenants, users, forecasts>>
        /\ UNCHANGED <<audit_logs, requests, clock, last_job>>
        /\ UNCHANGED <<ingest_vars, ml_vars, nav_vars, job_vars>>

(* DELETE FROM users WHERE id = u *)
SqlDeleteUser(s, u) ==
    /\ \E r \in users : r.id = u /\ Policy("users", r, s)
    /\ users' = {r \in users : r.id # u}
    /\ scaling_events' =
          [e \in DOMAIN scaling_events |->
              [scaling_events[e] EXCEPT !.approved_by = SetNull(@, u)]]
    /\ audit_logs' =
          [i \in DOMAIN audit_logs |->
              [audit_logs[i] EXCEPT !.user_id = SetNull(@, u)]]
    /\ sql_result' = NoResult
    /\ UNCHANGED <<tenants, forecasts>>
    /\ UNCHANGED <<requests, clock, last_job>>
    /\ UNCHANGED <<ingest_vars, ml_vars, nav_vars, job_vars>>

(* DELETE FROM tenants WHERE id = t *)
SqlDeleteTenant(s, t) ==
    /\ t \in tenants /\ Policy("tenants", [id |-> t], s)
    /\ tenants' = tenants \ {t}
    /\ users' = CascadeSet(users, t)
    /\ forecasts' = CascadeSet(forecasts, t)
    /\ scaling_events' = CascadeSeq(scaling_events, t)
    /\ audit_logs' = CascadeSeq(audit_logs, t)
    /\ sql_result' = NoResult
    /\ UNCHANGED <<requests, clock, last_job>>
    /\ UNCHANGED <<ingest_vars, ml_vars, nav_vars, job_vars>>

----------------------------------------------------------------------------
(* Specifications *)

InitJob ==
    [ tenant |-> "t1", outcome |-> "skipped", reason |-> NULL,
      peak |-> 0, recommended |-> MIN_REPLICAS, time |-> 0 - 1 ]

Init ==
    /\ scaling_events = <<>>
    /\ audit_logs = <<>>
    /\ requests = <<>>
    /\ clock = 1
    /\ last_job = InitJob
    /\ metrics = <<>>
    /\ now = 0
    /\ last_ingest = [tenant |-> NULL, batch |-> <<>>, status |-> "none"]
    /\ last_read = NoRead
    /\ model_files = {}
    /\ latest = [t \in Tenants |-> NoModel]
    /\ model_cache = [t \in Tenants |-> NoModel]
    /\ trained = [t \in Tenants |-> NoModel]
    /\ ml_calls = <<>>
    /\ last_response = Response("u1", "none", "none", NoModel)
    /\ jobs = [t \in Tenants |-> NoJob]
    /\ history = <<"/">>
    /\ tenants = Tenants
    /\ users = {UserRow(u) : u \in Users}
    /\ forecasts = {}
    /\ sql_result = NoResult
    /\ job_runs = [r \in Runs |-> NoRun]

(* The decision workflow: the job files surge recommendations, users decide. *)
DefaultConfig == [current_replicas |-> 10, capacity_per_pod |-> 50, safety_factor |-> 1]
DefaultForecast == <<180, 220, 280, 240>>

Next ==
    \/ \E t \in Tenants :
          JobInsertRecommendation(t, "SURGE_DETECTED", DefaultForecast, DefaultConfig, DefaultReason)
    \/ \E u \in Users, id \in EventIds, d \in Decisions : SubmitDecision(u, id, d)
    \/ \E i \in DOMAIN requests : Lookup(i)
    \/ \E i \in DOMAIN requests : Apply(i)

Spec == Init /\ [][Next]_vars

(* The recommendation engine: the job on every forecast, workload           *)
(* configuration, signal and reason.                                        *)
NextEngine ==
    \E t \in Tenants, signal \in EventTypes, p \in Forecasts, c \in Configs, reason \in Reasons :
        JobInsertRecommendation(t, signal, p, c, reason)

SpecEngine == Init /\ [][NextEngine]_vars

(* The job loop of tenant t1 over time: one run a minute, with the          *)
(* decisions of t1's users in between.                                      *)
NextLoop ==
    \/ /\ last_job.time < now
       /\ JobInsertRecommendation("t1", "SURGE_DETECTED", DefaultForecast,
                                  DefaultConfig, DefaultReason)
    \/ \E u \in {"u1", "u2"}, id \in EventIds, d \in Decisions : SubmitDecision(u, id, d)
    \/ \E i \in DOMAIN requests : Lookup(i)
    \/ \E i \in DOMAIN requests : Apply(i)
    \/ Sleep

SpecLoop == Init /\ [][NextLoop]_vars

(* Runs of the job on several workers, statement by statement, and an      *)
(* approval in between.                                                    *)
NextJob ==
    \/ \E r \in Runs, t \in Tenants, signal \in {"SURGE_DETECTED", "DROP_EXPECTED"} :
          JobCheck(r, t, signal)
    \/ \E r \in Runs : JobInsert(r, DefaultForecast, DefaultConfig, DefaultReason)
    \/ \E id \in EventIds : requests = <<>> /\ SubmitDecision("u1", id, "approve")
    \/ \E i \in DOMAIN requests : Lookup(i)
    \/ \E i \in DOMAIN requests : Apply(i)

SpecJob == Init /\ [][NextJob]_vars

(* Ingestion and the dashboard's read of recent metrics. *)
NextIngest ==
    \/ \E identity \in Identities, batch \in Batches : IngestMetrics(identity, batch)
    \/ \E t \in Tenants : ReadRecent(t)
    \/ Tick

SpecIngest == Init /\ [][NextIngest]_vars

(* The ML service under concurrent training and prediction calls; each    *)
(* tenant's history arrives once (t1's in any of the three shapes, t2's   *)
(* with 60 days), and one user per tenant asks for predictions (the       *)
(* handler reads only the caller's tenant).                               *)
NextML ==
    \/ \E batch \in HistoryBatches :
          AllMetrics("t1") = <<>> /\ IngestMetrics(Some("t1"), batch)
    \/ /\ AllMetrics("t2") = <<>>
       /\ IngestMetrics(Some("t2"), <<HistoryEntry(60), HistoryEntry(0)>>)
    \/ \E u \in Users, days_history \in DaysHistory : TrainStart(u, days_history)
    \/ \E i \in DOMAIN ml_calls : TrainFinish(i)
    \/ \E u \in {"u1", "u3"},
          req \in {DefaultRequest, [DefaultRequest EXCEPT !.current_replicas = 51]} :
          PredictStart(u, req)
    \/ \E i \in DOMAIN ml_calls : PredictFinish(i, DefaultForecasterOutput, 3)

SpecML == Init /\ [][NextML]_vars

(* Predictions of a tenant trained once, one call at a time, over the      *)
(* forecaster's possible outputs.                                          *)
NextPredict ==
    \/ IngestMetrics(Some("t1"), <<HistoryEntry(60), HistoryEntry(0)>>)
    \/ latest["t1"] = NoModel /\ TrainStart("u1", 60)
    \/ \E i \in DOMAIN ml_calls : TrainFinish(i)
    \/ /\ ml_calls = <<>>
       /\ \E u \in {"u1", "u2"}, req \in PredictionRequests : PredictStart(u, req)
    \/ \E i \in DOMAIN ml_calls, fc \in ForecasterOutputs, f \in SafetyFactors :
          PredictFinish(i, fc, f)

SpecPredict == Init /\ [][NextPredict]_vars

(* The same, with steps of a prediction that raise. *)
NextFault ==
    \/ NextPredict
    \/ \E u \in {"u1", "u2"} : ml_calls = <<>> /\ PredictLoadFault(u, DefaultRequest)
    \/ \E i \in DOMAIN ml_calls, kind \in ExceptionKinds : PredictFault(i, kind)

SpecFault == Init /\ [][NextFault]_vars

(* A tenant is trained; then predictions run next to the recommendations   *)
(* of the job and the decisions on them.                                   *)
FlowOutputs == {DefaultForecasterOutput,
                [DefaultForecasterOutput EXCEPT !.pattern_trained = FALSE]}

NextFlow ==
    \/ IngestMetrics(Some("t1"), <<HistoryEntry(60), HistoryEntry(0)>>)
    \/ latest["t1"] = NoModel /\ ml_calls = <<>> /\ TrainStart("u1", 60)
    \/ \E i \in DOMAIN ml_calls : TrainFinish(i)
    \/ /\ latest["t1"] # NoModel
       /\ JobInsertRecommendation("t1", "SURGE_DETECTED", DefaultForecast,
                                  DefaultConfig, DefaultReason)
    \/ \E id \in DOMAIN scaling_events, d \in Decisions :
          /\ \A i \in DOMAIN requests : requests[i].phase = "done"
          /\ SubmitDecision("u1", id, d)
    \/ \E i \in DOMAIN requests : Lookup(i)
    \/ \E i \in DOMAIN requests : Apply(i)
    \/ \E req \in {DefaultRequest, [DefaultRequest EXCEPT !.capacity_per_pod = 7]} :
          ml_calls = <<>> /\ PredictStart("u2", req)
    \/ \E i \in DOMAIN ml_calls, fc \in FlowOutputs, f \in SafetyFactors :
          PredictFinish(i, fc, f)

SpecFlow == Init /\ [][NextFlow]_vars

(* The dashboard: sidebar clicks, typed addresses and the back button. *)
NextNav ==
    \/ \E k \in DOMAIN navItems : ClickNavItem(k)
    \/ \E url \in Urls : OpenUrl(url)
    \/ Back

SpecNav == Init /\ [][NextNav]_vars

(* Training runs of both tenants step by step, with failures, and          *)
(* predictions in between.                                                 *)
NextTrain ==
    \/ \E t \in Tenants, batch \in HistoryBatches :
          AllMetrics(t) = <<>> /\ IngestMetrics(Some(t), batch)
    \/ \E u \in Users, days_history \in {60, 90} : PipelineStart(u, days_history)
    \/ \E t \in Tenants : PipelineStep(t)
    \/ \E u \in Users : PipelineFail(u)
    \/ \E u \in Users : PipelinePublish(u)
    \/ \E u \in {"u1", "u3"} : ml_calls = <<>> /\ PredictStart(u, DefaultRequest)
    \/ \E i \in DOMAIN ml_calls : PredictFinish(i, DefaultForecasterOutput, 3)

SpecTrain == Init /\ [][NextTrain]_vars

(* The database under the job, the decisions of existing users and the     *)
(* statements of tenant sessions.                                          *)
UserExists(u) == \E r \in users : r.id = u

NextDB ==
    \/ /\ tenants = Tenants /\ sql_result = NoResult
       /\ JobInsertRecommendation("t1", "SURGE_DETECTED", DefaultForecast,
                                  DefaultConfig, DefaultReason)
    \/ \E id \in EventIds :
          /\ UserExists("u1") /\ tenants = Tenants /\ sql_result = NoResult
          /\ requests = <<>>
          /\ SubmitDecision("u1", id, "approve")
    \/ \E i \in DOMAIN requests :
          /\ UserExists(requests[i].caller) /\ tenants = Tenants
          /\ sql_result = NoResult
          /\ Lookup(i)
    \/ \E i \in DOMAIN requests :
          /\ UserExists(requests[i].caller) /\ tenants = Tenants
          /\ sql_result = NoResult
          /\ Apply(i)
    \/ \E s \in Tenants, table \in Tables :
          sql_result = NoResult /\ SqlSelect(s, table)
    \/ \E s \in Tenants, table \in {"forecasts", "metrics"}, t \in Tenants :
          Len(metrics) < MaxBatch /\ SqlInsert(s, table, t, now)
    \/ \E s \in Tenants, id \in EventIds, t \in Tenants : SqlUpdateTenantId(s, id, t)
    \/ \E s \in Tenants, u \in {"u1", "u3"} : SqlDeleteUser(s, u)
    \/ \E s \in Tenants, t \in Tenants : SqlDeleteTenant(s, t)

SpecDB == Init /\ [][NextDB]_vars

(* Both tenants with a history of 60 days, written by their own sessions,  *)
(* and their training and prediction calls side by side.                   *)
NextTenants ==
    \/ \E t \in Tenants :
          /\ AllMetrics(t) = <<>>
          /\ SqlInsert(t, "metrics", t, now - min_training_days * DAY)
    \/ \E t \in Tenants :
          /\ Len(AllMetrics(t)) = 1
          /\ SqlInsert(t, "metrics", t, now)
    \/ \E u \in {"u1", "u3"} : TrainStart(u, min_training_days)
    \/ \E i \in DOMAIN ml_calls : TrainFinish(i)
    \/ \E u \in {"u1", "u3"} : PredictStart(u, DefaultRequest)
    \/ \E i \in DOMAIN ml_calls : PredictFinish(i, DefaultForecasterOutput, 3)

SpecTenants == Init /\ [][NextTenants]_vars

----------------------------------------------------------------------------
(* Properties of the decision workflow (Spec) *)

Range(f) == { f[x] : x \in DOMAIN f }

(* C1: an event's status becomes executed only from approved: no step      *)
(* moves an event from pending or from rejected directly to executed.      *)
C1_ExecutedOnlyAfterApproved ==
    [][ \A e \in DOMAIN scaling_events :
          (scaling_events'[e].status = "executed"
             /\ scaling_events[e].status # "executed")
          => scaling_events[e].status = "approved" ]_vars

Winners(e) ==
    { i \in DOMAIN requests : requests[i].id = e /\ requests[i].result = "ok" }

(* the answered requests that found event e pending when they looked it up *)
Racers(e) ==
    { i \in DOMAIN requests :
        requests[i].id = e /\ requests[i].phase = "done"
        /\ requests[i].seen = "pending" }

(* C2: of the approve/reject requests that run concurrently on one pending *)
(* event exactly one succeeds, every other one fails with InvalidState,    *)
(* and the event ends in the status the successful request chose.          *)
C2_ExactlyOneDecisionWins ==
    \A e \in DOMAIN scaling_events :
        /\ Cardinality(Winners(e)) <= 1
        /\ Racers(e) # {} => Cardinality(Winners(e)) = 1
        /\ \A i \in Racers(e) \ Winners(e) : requests[i].result = "InvalidState"
        /\ \A i \in Winners(e) :
              scaling_events[e].status = DecisionStatus(requests[i].decision)
        /\ Winners(e) = {} => scaling_events[e].status = "pending"

C2_Witness ==
    \E e \in DOMAIN scaling_events : \E i, j \in Racers(e) :
        /\ requests[i].decision = "approve" /\ requests[j].decision = "reject"
        /\ requests[i].result = "InvalidState" /\ requests[j].result = "ok"
        /\ scaling_events[e].status = "rejected"

ForwardEdges ==
    { <<"pending", "approved">>, <<"pending", "rejected">>,
      <<"approved", "executed">> }

(* C3: a status changes only along pending->approved, pending->rejected    *)
(* and approved->executed; never back, and never out of rejected/executed. *)
C3_ForwardOnly ==
    [][ \A e \in DOMAIN scaling_events :
          scaling_events'[e].status # scaling_events[e].status
          => <<scaling_events[e].status, scaling_events'[e].status>>
                \in ForwardEdges ]_vars

DecisionRows(t) ==
    { i \in DOMAIN audit_logs :
        audit_logs[i].tenant_id = t /\ audit_logs[i].action \in Decisions }

RowsAbout(e) ==
    { i \in DOMAIN audit_logs :
        audit_logs[i].resource_id = e /\ audit_logs[i].action \in Decisions }

Decided(t) ==
    { e \in DOMAIN scaling_events :
        scaling_events[e].tenant_id = t /\ scaling_events[e].status # "pending" }

(* C7: every decision applied to an event has exactly one audit row, with  *)
(* the event's tenant and the acting user; a tenant has as many decision   *)
(* rows as events that left pending.                                       *)
C7_OneAuditRowPerDecision ==
    /\ \A t \in Tenants : Cardinality(DecisionRows(t)) = Cardinality(Decided(t))
    /\ \A e \in DOMAIN scaling_events :
          /\ Cardinality(RowsAbout(e)) = Cardinality(Winners(e))
          /\ \A i \in RowsAbout(e) :
                /\ audit_logs[i].tenant_id = scaling_events[e].tenant_id
                /\ \E r \in Winners(e) :
                      /\ audit_logs[i].user_id = Some(requests[r].caller)
                      /\ audit_logs[i].action = requests[r].decision
    /\ \A i \in DOMAIN audit_logs : audit_logs[i].resource_id \in DOMAIN scaling_events

C7_Witness ==
    /\ Len(audit_logs) = 2
    /\ audit_logs[1].tenant_id # audit_logs[2].tenant_id
    /\ audit_logs[1].action = "reject" /\ audit_logs[2].action = "approve"
    /\ audit_logs[2].user_id = Some("u2")

Finishes(i) == requests[i].phase # "done" /\ requests'[i].phase = "done"

Foreign(r) ==
    \/ r.id \notin DOMAIN scaling_events
    \/ scaling_events[r.id].tenant_id # UserTenant(r.caller)

EventUntouched(id) ==
    IF id \in DOMAIN scaling_events
    THEN scaling_events'[id] = scaling_events[id]
    ELSE id \notin DOMAIN scaling_events'

(* C8: a request on an id that does not exist or belongs to another tenant *)
(* is answered NotFound and leaves the event as it was.                    *)
C8_ForeignIdNotFound ==
    [][ \A i \in DOMAIN requests :
          (Foreign(requests[i]) /\ requests'[i] # requests[i])
          => /\ Finishes(i) /\ requests'[i].result = "NotFound"
             /\ EventUntouched(requests[i].id) ]_vars

C8_Witness ==
    /\ Len(requests) = 2
    /\ \A i \in DOMAIN requests : requests[i].result = "NotFound"
    /\ 1 \in DOMAIN scaling_events /\ 2 \notin DOMAIN scaling_events
    /\ requests[1].id = 1 /\ requests[1].caller = "u3"
    /\ requests[2].id = 2
    /\ scaling_events[1].tenant_id = "t1"
    /\ scaling_events[1].status = "pending"
    /\ scaling_events[1].approved_by = NULL

(* C9: a request on an event of the caller's tenant that is not pending is *)
(* answered InvalidState and leaves the event as it was.                   *)
C9_NotPendingInvalidState ==
    [][ \A i \in DOMAIN requests :
          LET r == requests[i]
          IN  (~Foreign(r) /\ scaling_events[r.id].status # "pending"
                 /\ requests'[i] # r)
              => /\ Finishes(i) /\ requests'[i].result = "InvalidState"
                 /\ scaling_events'[r.id] = scaling_events[r.id] ]_vars

C9_Witness ==
    \E i \in DOMAIN requests :
        /\ requests[i].result = "InvalidState"
        /\ requests[i].seen = "executed"
        /\ requests[i].decision = "reject"
        /\ scaling_events[requests[i].id].status = "executed"
        /\ scaling_events[requests[i].id].approved_by # NULL

----------------------------------------------------------------------------
(* Properties of the recommendation engine (SpecEngine) *)

(* C4: the calculator's recommended_replicas, and that of every stored     *)
(* event, is at least 1 and at most 50, whatever the forecast.             *)
C4_ReplicasWithinCap ==
    /\ last_job.recommended >= 1 /\ last_job.recommended <= 50
    /\ \A e \in DOMAIN scaling_events :
          /\ scaling_events[e].recommended_replicas >= 1
          /\ scaling_events[e].recommended_replicas <= 50

C4_Witness ==
    /\ last_job.outcome = "inserted"
    /\ last_job.peak = 100 * CurrentTraffic
    /\ last_job.recommended = 50
    /\ \E e \in DOMAIN scaling_events : scaling_events[e].recommended_replicas = 1

NoReason(reason) == reason = NULL \/ reason = Some("")

(* C10: every stored event has a non-empty reason; a job run whose         *)
(* recommendation has no reason or an empty one stores nothing.            *)
C10_ReasonNeverEmpty ==
    [][ /\ \A e \in DOMAIN scaling_events' : ~NoReason(scaling_events'[e].reason)
        /\ NoReason(last_job'.reason)
              => /\ scaling_events' = scaling_events
                 /\ last_job'.outcome # "inserted" ]_vars

C10_Witness ==
    /\ last_job.outcome = "invalid"
    /\ last_job.reason = Some("")
    /\ scaling_events # <<>>

----------------------------------------------------------------------------
(* Properties of ingestion (SpecIngest) *)

CountOf(rows, r) == Cardinality({ i \in DOMAIN rows : rows[i] = r })

AddsExactly(before, after, added) ==
    /\ Len(after) = Len(before) + Len(added)
    /\ \A r \in Range(before) \cup Range(after) \cup Range(added) :
          CountOf(after, r) = CountOf(before, r) + CountOf(added, r)

(* the step ingested last_ingest'.batch: only a successful ingestion       *)
(* changes the table                                                       *)
BatchVisibleToIngesterOnly ==
    LET a == last_ingest'.tenant[1]
    IN  /\ AddsExactly(RecentMetrics(a, metrics, now),
                       RecentMetrics(a, metrics', now'),
                       MetricRows(a, last_ingest'.batch, now))
        /\ \A b \in Tenants \ {a} :
              RecentMetrics(b, metrics', now') = RecentMetrics(b, metrics, now)

(* C5 as stated: after any valid batch of n rows the ingesting tenant's    *)
(* recent metrics show exactly the n new rows, another tenant's none.      *)
C5_RecentShowsEveryBatch ==
    [][ metrics' # metrics => BatchVisibleToIngesterOnly ]_vars

BatchInWindow(batch, ts) ==
    \A i \in DOMAIN batch :
        batch[i].time = NULL \/ batch[i].time[1] > ts - 30

(* C5 amended: the same, for a batch whose entries carry no time of their  *)
(* own or a time within the read's window (the last 30 minutes).           *)
C5_RecentShowsInWindowBatch ==
    [][ (metrics' # metrics /\ BatchInWindow(last_ingest'.batch, now))
          => BatchVisibleToIngesterOnly ]_vars

C5_Witness ==
    /\ last_ingest.status = "ok"
    /\ Len(last_ingest.batch) = 2
    /\ \E i \in DOMAIN last_ingest.batch : last_ingest.batch[i].time # NULL
    /\ BatchInWindow(last_ingest.batch, now)
    /\ last_read.tenant = last_ingest.tenant
    /\ Len(last_read.rows) = 2
    /\ Len(metrics) = 3
    /\ \E i \in DOMAIN metrics :
          Some(metrics[i].tenant_id) # last_ingest.tenant /\ InWindow(metrics[i], now)

Whitelist ==
    {"request_rate", "error_rate", "latency_p50", "latency_p95", "latency_p99",
     "cpu", "memory"}

HasUnknownType(batch) ==
    \E i \in DOMAIN batch : batch[i].metric_type \notin Whitelist

----------------------------------------------------------------------------
(* Properties of the ML service (SpecPredict, SpecML) *)

Answered(op, result) == last_response.op = op /\ last_response.result = result

(* C11: every successful response of generate-prediction carries           *)
(* requires_approval = true in its scaling recommendation.                 *)
C11_AlwaysRequiresApproval ==
    Answered("predict", "ok")
        => last_response.scaling_recommendation.requires_approval = TRUE

C11_Witness ==
    /\ Answered("predict", "ok")
    /\ last_response.scaling_recommendation.recommended_replicas
          < last_response.scaling_recommendation.current_replicas
    /\ last_response.predictions.model_used = "seasonal_baseline"
    /\ last_response.scaling_recommendation.requires_approval = TRUE

TrainingData(u, days_history) ==
    load_historical_metrics(UserTenant(u), now - days_history * DAY, now)

Published(t) == {m \in model_files : m.tenant = t}

(* C12: a training request of an admin whose tenant has less than 60 days   *)
(* of history in the requested window fails with InvalidInput and          *)
(* publishes no model, also for days_history between 30 and 59 that        *)
(* request validation accepts; with exactly 60 days available the request  *)
(* goes through and the tenant's latest model is the newly written one.    *)
C12_SixtyDaysOfHistory ==
    [][\A u \in Users, days_history \in DaysHistory :
         (TrainStart(u, days_history) /\ is_admin(u)) =>
            LET t == UserTenant(u)
                days == days_of_data(TrainingData(u, days_history))
            IN  /\ days < 60 =>
                      /\ last_response' = Response(u, "train", "InvalidInput", NoModel)
                      /\ UNCHANGED <<model_files, latest, model_cache>>
                /\ (days = 60 /\ days_history = 60) =>
                      /\ latest'[t] \notin {m.version : m \in model_files}
                      /\ Published(t)' = Published(t) \cup
                                           {[tenant |-> t, version |-> latest'[t]]}
                      /\ \E i \in DOMAIN ml_calls' :
                            /\ ml_calls'[i].op = "train"
                            /\ ml_calls'[i].model = latest'[t]]_vars

(* Admin u1's training of t1 was refused although t1 has 59 days of         *)
(* history, a length request validation accepts; nothing was published.    *)
C12_Witness ==
    /\ Answered("train", "InvalidInput")
    /\ last_response.caller = "u1"
    /\ is_admin("u1")
    /\ days_of_data(TrainingData("u1", 59)) = 59
    /\ latest["t1"] = NoModel
    /\ Published("t1") = {}

NothingTrained == UNCHANGED <<model_files, latest, model_cache, trained, ml_calls>>

(* C13 as stated: every train request of a caller without the admin role   *)
(* is answered Forbidden and trains nothing. A request whose days_history  *)
(* is outside 30..365 is refused by request validation before the          *)
(* handler's role check runs, so its answer is InvalidInput.               *)
C13_NonAdminAlwaysForbidden ==
    [][\A u \in Users, days_history \in DaysHistory :
         (TrainStart(u, days_history) /\ Role(u) # "admin") =>
            /\ last_response' = Response(u, "train", "Forbidden", NoModel)
            /\ NothingTrained]_vars

(* C13: a well-formed train request (days_history within 30..365) of a     *)
(* caller without the admin role is answered Forbidden before any          *)
(* training step; whatever the request, no artifact is written and the     *)
(* latest pointer and the model cache stay as they were.                   *)
C13_NonAdminForbidden ==
    [][\A u \in Users, days_history \in DaysHistory :
         (TrainStart(u, days_history) /\ Role(u) # "admin") =>
            /\ ValidTrainingRequest(days_history) =>
                  last_response' = Response(u, "train", "Forbidden", NoModel)
            /\ last_response'.result \in {"Forbidden", "InvalidInput"}
            /\ NothingTrained]_vars

(* Operator u2 was refused although t1 has the 60 days of history that     *)
(* would let an admin train; t1 still has no model.                        *)
C13_Witness ==
    /\ Answered("train", "Forbidden")
    /\ last_response.caller = "u2"
    /\ Role("u2") = "operator"
    /\ days_of_data(TrainingData("u2", 60)) = 60
    /\ Published("t1") = {}
    /\ latest["t1"] = NoModel
    /\ model_cache["t1"] = NoModel

LastSevenDays(t) == load_historical_metrics(t, now - 7 * DAY, now)

(* C14 as stated: a prediction request is answered NotFound when the       *)
(* tenant has no trained model and InvalidInput when it has one but no     *)
(* recent metrics, and in both cases the request returns no                *)
(* recommendation and puts no model into the cache. A request outside the  *)
(* validated ranges is answered InvalidInput before the model is looked    *)
(* up, and _load_model caches the model before the metrics are read.       *)
C14_ErrorsCacheNothing ==
    [][/\ \A u \in Users, req \in PredictionRequests :
            (PredictStart(u, req) /\ latest[UserTenant(u)] = NoModel) =>
               /\ last_response' = Response(u, "predict", "NotFound", NoModel)
               /\ UNCHANGED <<model_cache, ml_calls>>
       /\ \A i \in DOMAIN ml_calls :
            (/\ PredictFinish(i, DefaultForecasterOutput, 3)
             /\ Len(LastSevenDays(UserTenant(ml_calls[i].caller))) = 0) =>
               /\ last_response' =
                     Response(ml_calls[i].caller, "predict", "InvalidInput", NoModel)
               /\ model_cache'[UserTenant(ml_calls[i].caller)]
                     \in {ml_calls[i].cached, NoModel}]_vars

(* C14: a well-formed prediction request is answered NotFound when the     *)
(* tenant has no trained model, and then nothing is cached; it is          *)
(* answered InvalidInput when a model exists but the tenant has no metrics *)
(* in the last 7 days, and then the model was put into the cache when it   *)
(* was loaded and the failure does not remove it. In neither case does     *)
(* the response carry a recommendation.                                    *)
C14_PredictionErrors ==
    [][/\ \A u \in Users, req \in PredictionRequests :
            (PredictStart(u, req) /\ ValidPredictionRequest(req)) =>
               LET t == UserTenant(u)
               IN  /\ latest[t] = NoModel =>
                         /\ last_response' = Response(u, "predict", "NotFound", NoModel)
                         /\ last_response'.scaling_recommendation = NoRecommendation
                         /\ model_cache'[t] = NoModel
                         /\ UNCHANGED <<model_cache, ml_calls>>
                   /\ latest[t] # NoModel =>
                         /\ model_cache'[t] # NoModel
                         /\ model_cache'[t] \in {model_cache[t], latest[t]}
       /\ \A i \in DOMAIN ml_calls :
            (/\ PredictFinish(i, DefaultForecasterOutput, 3)
             /\ Len(LastSevenDays(UserTenant(ml_calls[i].caller))) = 0) =>
               /\ last_response' =
                     Response(ml_calls[i].caller, "predict", "InvalidInput", NoModel)
               /\ last_response'.scaling_recommendation = NoRecommendation
               /\ UNCHANGED model_cache]_vars

(* u1's prediction was refused for want of recent metrics: t1 has a        *)
(* trained model and rows 8 and 68 days old; the model sits in the cache.  *)
C14_Witness ==
    /\ Answered("predict", "InvalidInput")
    /\ last_response.caller = "u1"
    /\ latest["t1"] # NoModel
    /\ trained["t1"] = latest["t1"]
    /\ Len(AllMetrics("t1")) = 2
    /\ Len(LastSevenDays("t1")) = 0
    /\ model_cache["t1"] = latest["t1"]

Forecast == last_response.predictions

(* C15: for every input of the hybrid forecaster, a pattern learner that   *)
(* is untrained or whose confidence is below 0.7 leaves model_used at the  *)
(* seasonal baseline; model_used names the pattern learner only for a      *)
(* trained one with confidence of at least 0.7.                            *)
C15_ModelUsed ==
    [][\A i \in DOMAIN ml_calls, fc \in ForecasterOutputs, f \in SafetyFactors :
         (PredictFinish(i, fc, f) /\ last_response'.result = "ok") =>
            /\ Forecast'.model_used \in {"pattern_learner", "seasonal_baseline"}
            /\ (fc.confidence < 70 \/ ~fc.pattern_trained) =>
                  Forecast'.model_used = "seasonal_baseline"
            /\ Forecast'.model_used = "pattern_learner" =>
                  (fc.confidence >= 70 /\ fc.pattern_trained)]_vars

(* The forecast of a trained pattern learner at confidence 0.69 was        *)
(* answered from the seasonal baseline.                                    *)
C15_Witness ==
    /\ Answered("predict", "ok")
    /\ Forecast.confidence = 69
    /\ Forecast.model_used = "seasonal_baseline"
    /\ Forecast.values = DefaultForecasterOutput.baseline

WithinSanityBounds(values, current_traffic) ==
    \A k \in DOMAIN values : values[k] >= 0 /\ values[k] <= 5 * current_traffic

Recommendation == last_response.scaling_recommendation

Peak(values) == CHOOSE p \in Range(values) : \A k \in DOMAIN values : values[k] <= p

PodsFor(peak, capacity_per_pod) ==
    CHOOSE n \in 0..peak : (n - 1) * capacity_per_pod < peak /\ peak <= n * capacity_per_pod

SidebarPaths == {navItems[k].to : k \in DOMAIN navItems}

(* C19: the paths the sidebar links to are the paths registered under the  *)
(* main layout: every sidebar entry leads to a registered route, and every *)
(* registered page the user is on has a sidebar entry.                     *)
C19_SidebarEqualsRoutes ==
    /\ \A k \in DOMAIN navItems : Match(navItems[k].to) # NoMatch
    /\ Match(Location) # NoMatch => Location \in SidebarPaths

(* The user is on the Tenants page, to which no sidebar entry leads. *)
C19_Witness ==
    /\ Match(Location) = "Tenants"
    /\ Location \notin SidebarPaths
    /\ SidebarPaths \subseteq {r.path : r \in RegisteredRoutes}

(* Properties of concurrent training and prediction (SpecML) *)

InFlight(op) == {i \in DOMAIN ml_calls : ml_calls[i].op = op}

WholeModel(t, model) == [tenant |-> t, version |-> model] \in model_files

LatestIsWhole(t) ==
    /\ latest[t] = NoModel \/ [tenant |-> t, version |-> latest[t]] \in model_files
    /\ (jobs[t] # NoJob /\ jobs[t].written # "whole") => latest[t] # jobs[t].version

(* C21: after every step a tenant's latest pointer refers to nothing or to *)
(* an artifact that a successful training run wrote whole, never to the    *)
(* file a run in progress is still writing; and a run that fails or times  *)
(* out at any step leaves the pointer and the published artifacts as they  *)
(* were.                                                                   *)
C21_LatestIsWholeArtifact ==
    [][/\ \A t \in Tenants : LatestIsWhole(t)'
       /\ \A u \in Users :
             PipelineFail(u) =>
                /\ UNCHANGED <<latest, model_files>>
                /\ last_response'.result = "Fault"]_vars

(* t1's second training run is writing its file while latest still points  *)
(* to the model of the first run.                                          *)
C21_Witness ==
    /\ latest["t1"] = 1
    /\ [tenant |-> "t1", version |-> 1] \in model_files
    /\ jobs["t1"].step = "saving"
    /\ jobs["t1"].written = "part"
    /\ jobs["t1"].version = 2

(* Properties of the job loop over time (SpecLoop) *)

COOLDOWN == 5

(* C22: any two scaling recommendations issued for the same tenant are at  *)
(* least 5 minutes apart; one computed within 5 minutes of the previous    *)
(* one is not issued as a recommendation of its own.                       *)
C22_CooldownBetweenRecommendations ==
    \A a, b \in DOMAIN scaling_events :
        (a < b /\ scaling_events[a].tenant_id = scaling_events[b].tenant_id) =>
            scaling_events[b].created_at - scaling_events[a].created_at >= COOLDOWN

(* Two recommendations of t1 issued one minute apart: the first was        *)
(* rejected before the next run of the job.                                *)
C22_Witness ==
    /\ 2 \in DOMAIN scaling_events
    /\ scaling_events[1].tenant_id = "t1" /\ scaling_events[2].tenant_id = "t1"
    /\ scaling_events[1].status = "rejected"
    /\ scaling_events[2].status = "pending"
    /\ scaling_events[2].created_at - scaling_events[1].created_at = 1

----------------------------------------------------------------------------
(* The statements a session whose app.current_tenant_id is s can issue.    *)
StatementOf(s) ==
    \/ \E table \in {"forecasts", "metrics"}, t \in Tenants : SqlInsert(s, table, t, now)
    \/ \E id \in EventIds, t \in Tenants : SqlUpdateTenantId(s, id, t)
    \/ \E u \in Users : SqlDeleteUser(s, u)
    \/ \E t \in Tenants : SqlDeleteTenant(s, t)

RowsOfOthers(table, s) == {r \in TableRows(table) : r.tenant_id # s}

(* C23: with app.current_tenant_id set to T, a read of users, metrics,      *)
(* forecasts, scaling_events or audit_logs returns only rows of tenant T,   *)
(* a read of tenants returns every row of it, and no insert, update or      *)
(* delete of that session creates or changes a row of another tenant.       *)
C23_TenantIsolation ==
    [][/\ sql_result'.table = "tenants" =>
              sql_result'.rows = {[id |-> t] : t \in tenants'}
       /\ sql_result'.table \in TenantTables =>
              \A r \in sql_result'.rows : Some(r.tenant_id) = sql_result'.session
       /\ \A s \in Tenants :
            StatementOf(s) =>
               \A table \in TenantTables :
                   RowsOfOthers(table, s)' = RowsOfOthers(table, s)]_vars

(* A session of t1 has deleted the tenants row of t2, and the users of t2   *)
(* went with it, while the tenant t1 is as it was.                          *)
C23_Witness ==
    /\ tenants = {"t1"}
    /\ users = {UserRow(u) : u \in {v \in Users : UserTenant(v) = "t1"}}
    /\ \E r \in forecasts : r.tenant_id = "t1"

----------------------------------------------------------------------------
(* C25: every row of metrics, forecasts, scaling_events and audit_logs has  *)
(* a tenant_id that is the id of an existing row of tenants.                *)
C25_RowsReferToTenants ==
    \A table \in {"metrics", "forecasts", "scaling_events", "audit_logs"} :
        \A r \in TableRows(table) : r.tenant_id \in tenants

(* The tenant t1 is deleted and a metrics row of t1 is stored, while no     *)
(* forecast of t1 is.                                                       *)
C25_Witness ==
    /\ "t1" \notin tenants
    /\ \E r \in RowsOf(metrics) : r.tenant_id = "t1"
    /\ \A r \in forecasts : r.tenant_id # "t1"

----------------------------------------------------------------------------
(* C26: the audit log is append-only: every step keeps every audit row in   *)
(* place with its action, resource and tenant_id.                           *)
C26_AuditLogAppendOnly ==
    [][\A i \in DOMAIN audit_logs :
          /\ i \in DOMAIN audit_logs'
          /\ audit_logs'[i].action = audit_logs[i].action
          /\ audit_logs'[i].resource_type = audit_logs[i].resource_type
          /\ audit_logs'[i].resource_id = audit_logs[i].resource_id
          /\ audit_logs'[i].tenant_id = audit_logs[i].tenant_id]_vars

(* The approval of an event of t1 was audited and the audit row is gone     *)
(* with the tenant.                                                         *)
C26_Witness ==
    /\ "t1" \notin tenants
    /\ audit_logs = <<>>
    /\ \E i \in DOMAIN requests : requests[i].result = "ok"

----------------------------------------------------------------------------
(* C27: deleting a user keeps every scaling event and every audit row,      *)
(* with approved_by / user_id null where it was the user and every other    *)
(* column as it was; deleting a tenant removes the tenant's users.          *)
C27_UserDeletionKeepsHistory ==
    [][/\ \A s \in Tenants, u \in Users :
            SqlDeleteUser(s, u) =>
               /\ DOMAIN scaling_events' = DOMAIN scaling_events
               /\ \A e \in DOMAIN scaling_events :
                     scaling_events'[e] =
                        [scaling_events[e] EXCEPT
                            !.approved_by = IF @ = Some(u) THEN NULL ELSE @]
               /\ DOMAIN audit_logs' = DOMAIN audit_logs
               /\ \A i \in DOMAIN audit_logs :
                     audit_logs'[i] =
                        [audit_logs[i] EXCEPT
                            !.user_id = IF @ = Some(u) THEN NULL ELSE @]
               /\ \A e \in DOMAIN scaling_events' :
                     scaling_events'[e].approved_by # Some(u)
               /\ \A i \in DOMAIN audit_logs' : audit_logs'[i].user_id # Some(u)
       /\ \A s \in Tenants, t \in Tenants :
            SqlDeleteTenant(s, t) => \A r \in users' : r.tenant_id # t]_vars

(* The user u1 approved an event, the approval was audited, and u1 is       *)
(* deleted: event and audit row are there without the reference.            *)
C27_Witness ==
    /\ ~UserExists("u1")
    /\ \E e \in DOMAIN scaling_events :
          /\ scaling_events[e].status = DecisionStatus("approve")
          /\ scaling_events[e].executed_at # NULL
          /\ scaling_events[e].approved_by = NULL
    /\ \E i \in DOMAIN audit_logs :
          audit_logs[i].action = "approve" /\ audit_logs[i].user_id = NULL

----------------------------------------------------------------------------
(* C24: a prediction request of a tenant with a trained model and recent    *)
(* metrics is never answered with a failure caused by a fault inside the    *)
(* model code (a 500), and NotFound is answered only to a tenant that was   *)
(* never trained.                                                           *)
C24_FaultsFallBackToBaseline ==
    [][(last_response' # last_response /\ last_response'.op = "predict") =>
          LET t == UserTenant(last_response'.caller)
          IN  /\ (latest[t] # NoModel /\ LastSevenDays(t) # <<>>) =>
                    last_response'.result # "Fault"
              /\ last_response'.result = "NotFound" => latest[t] = NoModel]_vars

(* A prediction of the trained tenant t1, with metrics of today, was        *)
(* answered with a 500.                                                     *)
C24_Witness ==
    /\ latest["t1"] # NoModel
    /\ LastSevenDays("t1") # <<>>
    /\ last_response.op = "predict"
    /\ last_response.result = "Fault"

----------------------------------------------------------------------------
PendingOf(t) ==
    {e \in DOMAIN scaling_events :
        scaling_events[e].tenant_id = t /\ scaling_events[e].status = "pending"}

(* C28: in every reachable state each tenant has at most one scaling event  *)
(* in status pending, also when runs of the forecasting job overlap.        *)
C28_AtMostOnePending == \A t \in Tenants : Cardinality(PendingOf(t)) <= 1

(* Two runs both found no pending recommendation of t1, and both inserted.  *)
C28_Witness ==
    /\ Cardinality(PendingOf("t1")) = 2
    /\ \A r \in Runs : job_runs[r] = NoRun

----------------------------------------------------------------------------
(* The replicas recommended for a forecast, a pod capacity and a safety     *)
(* factor.                                                                  *)
ReplicasFor(values, capacity_per_pod, safety_factor) ==
    LET raw == PodsFor(Peak(values), capacity_per_pod) * safety_factor
    IN  IF raw < 1 THEN 1 ELSE IF raw > 50 THEN 50 ELSE raw

(* C29: the forecast and the recommended replicas of a prediction are       *)
(* determined by the tenant's metrics, the forecaster's output and the      *)
(* request, whatever scaling events and decisions there are; and a step     *)
(* that creates or decides a scaling event changes neither the metrics nor  *)
(* the models nor a prediction in flight.                                   *)
C29_NoBackwardFlow ==
    [][/\ Len(ml_calls') < Len(ml_calls) =>
            \A i \in DOMAIN ml_calls, fc \in ForecasterOutputs, f \in SafetyFactors :
               (PredictFinish(i, fc, f) /\ last_response'.result = "ok") =>
                  LET c == ml_calls[i]
                      rows == LastSevenDays(UserTenant(c.caller))
                      p == predict(fc, rows[1].value)
                  IN  /\ last_response'.predictions = p
                      /\ last_response'.scaling_recommendation.recommended_replicas =
                            ReplicasFor(p.values, c.request.capacity_per_pod, f)
       /\ (\/ scaling_events' # scaling_events
           \/ audit_logs' # audit_logs
           \/ requests' # requests) =>
             UNCHANGED <<metrics, now, model_files, latest, model_cache, trained,
                         ml_calls, last_response>>]_vars

(* A prediction is answered while the tenant has an executed, a rejected    *)
(* or a pending event.                                                      *)
C29_Witness ==
    /\ Answered("predict", "ok")
    /\ \E e \in DOMAIN scaling_events : scaling_events[e].status = "executed"
    /\ \E e \in DOMAIN scaling_events : scaling_events[e].status = "pending"
    /\ Recommendation.recommended_replicas # Recommendation.current_replicas

----------------------------------------------------------------------------
(* The user whose training or prediction call a step begins, continues or   *)
(* answers.                                                                 *)
Actor ==
    IF Len(ml_calls') > Len(ml_calls)
    THEN ml_calls'[Len(ml_calls')].caller
    ELSE last_response'.caller

(* C30: a step of a training or prediction call of tenant A leaves the      *)
(* cache entry and the latest pointer of every other tenant as they were,   *)
(* and a model is stored under a tenant's key only as loaded from that      *)
(* tenant's latest artifact, so every cache entry is a model of its tenant. *)
C30_OtherTenantsUntouched ==
    [][/\ \A b \in Tenants \ {UserTenant(Actor)} :
            model_cache'[b] = model_cache[b] /\ latest'[b] = latest[b]
       /\ \A t \in Tenants :
            (model_cache'[t] # model_cache[t] /\ model_cache'[t] # NoModel) =>
               /\ model_cache'[t] = latest[t]
               /\ [tenant |-> t, version |-> latest[t]] \in model_files
       /\ \A t \in Tenants :
            model_cache'[t] # NoModel =>
               [tenant |-> t, version |-> model_cache'[t]] \in model_files']_vars

(* Both tenants are trained and each has its own latest model in the cache. *)
C30_Witness ==
    /\ \A t \in Tenants : model_cache[t] # NoModel /\ model_cache[t] = latest[t]
    /\ model_cache["t1"] # model_cache["t2"]
    /\ \A t \in Tenants : [tenant |-> t, version |-> model_cache[t]] \in model_files

====
